---------------------------- MODULE Spec2Model ----------------------------
(***************************************************************************)
(* A model of lib/rejson.js: the Rejson client (a subclass of the ioredis  *)
(* client) that binds the JSON.* commands at construction and exposes one  *)
(* facade method per command, marshaling arguments with JSON.stringify     *)
(* and replies with JSON.parse / parseFloat / an "OK" comparison.          *)
(*                                                                         *)
(* JavaScript values are records with the same five fields:                *)
(*   t      the type tag ("null", "true", "false", "num", "nan", "inf",    *)
(*          "ninf", "str", "arr", "obj", "inst", or an error class)        *)
(*   n      the integer of a "num", the instance number of an "inst"       *)
(*   s      the characters of a "str", the message of an error             *)
(*   items  the elements of an "arr", the property values of an "obj"      *)
(*   keys   the property names of an "obj", in insertion order             *)
(* Text is a sequence of one-character strings, so that quoting, escaping  *)
(* and number formatting are computed and not assumed.                     *)
(*                                                                         *)
(* Scope of the model: numbers are integers, NaN and the infinities;       *)
(* `undefined`, functions and negative zero are not among the values;      *)
(* callers pass every declared parameter; each instance has at most one    *)
(* facade call in flight, and calls on different instances interleave      *)
(* freely.  The transport (ioredis) is the environment: it answers the     *)
(* oldest request of a connection with any reply or error.                 *)
(***************************************************************************)
EXTENDS Integers, Sequences, FiniteSets, TLC

(***************************************************************************)
(* Bounds of the model.                                                    *)
(***************************************************************************)
\* the longest variadic element list of arrAppend / arrInsert
MaxElems == 2
\* the largest number of keys given to multiGet
MaxKeys == 2

(***************************************************************************)
(* JavaScript values.                                                      *)
(***************************************************************************)
Val(t, n, s, items, keys) ==
  [t |-> t, n |-> n, s |-> s, items |-> items, keys |-> keys]

Null == Val("null", 0, <<>>, <<>>, <<>>)
True == Val("true", 0, <<>>, <<>>, <<>>)
False == Val("false", 0, <<>>, <<>>, <<>>)
NaN == Val("nan", 0, <<>>, <<>>, <<>>)
PosInf == Val("inf", 0, <<>>, <<>>, <<>>)
NegInf == Val("ninf", 0, <<>>, <<>>, <<>>)
Num(n) == Val("num", n, <<>>, <<>>, <<>>)
Str(s) == Val("str", 0, s, <<>>, <<>>)
Arr(items) == Val("arr", 0, <<>>, items, <<>>)
Obj(keys, items) == Val("obj", 0, <<>>, items, keys)
\* the Rejson instance itself, as a value (`this`)
This(i) == Val("inst", i, <<>>, <<>>, <<>>)
\* an error object of class `class` with message `msg`
Err(class, msg) == Val(class, 0, msg, <<>>, <<>>)

ErrorClasses == {"Error", "SyntaxError", "ReplyError"}
IsError(v) == v.t \in ErrorClasses

(***************************************************************************)
(* Text helpers.                                                           *)
(***************************************************************************)
Quote == "\""
Backslash == "\\"
DigitChars == <<"0", "1", "2", "3", "4", "5", "6", "7", "8", "9">>
IsDigit(c) == \E d \in 1..10 : DigitChars[d] = c
DigitValue(c) == (CHOOSE d \in 1..10 : DigitChars[d] = c) - 1

TextNull == <<"n", "u", "l", "l">>
TextTrue == <<"t", "r", "u", "e">>
TextFalse == <<"f", "a", "l", "s", "e">>
TextNaN == <<"N", "a", "N">>
TextInfinity == <<"I", "n", "f", "i", "n", "i", "t", "y">>
TextObject == <<"[", "o", "b", "j", "e", "c", "t", " ", "O", "b", "j", "e", "c", "t", "]">>

RECURSIVE NatToText(_)
NatToText(n) ==
  IF n < 10 THEN <<DigitChars[n + 1]>>
  ELSE NatToText(n \div 10) \o <<DigitChars[(n % 10) + 1]>>

\* Number::toString of an integer
NumberToText(n) == IF n < 0 THEN <<"-">> \o NatToText(-n) ELSE NatToText(n)

\* whether `lit` occurs in txt at position pos
StartsAt(txt, pos, lit) ==
  /\ pos + Len(lit) - 1 <= Len(txt)
  /\ SubSeq(txt, pos, pos + Len(lit) - 1) = lit

(***************************************************************************)
(* JSON.stringify(value), without indentation.                             *)
(***************************************************************************)
\* the two-character escape of a character that JSON text cannot hold bare
EscapeOf(c) ==
  CASE c = Quote -> <<Backslash, Quote>>
    [] c = Backslash -> <<Backslash, Backslash>>
    [] c = "\n" -> <<Backslash, "n">>
    [] c = "\t" -> <<Backslash, "t">>
    [] c = "\r" -> <<Backslash, "r">>
    [] c = "\f" -> <<Backslash, "f">>
    [] OTHER -> <<c>>

RECURSIVE QuoteChars(_)
QuoteChars(s) ==
  IF s = <<>> THEN <<>> ELSE EscapeOf(Head(s)) \o QuoteChars(Tail(s))

QuoteJSONString(s) == <<Quote>> \o QuoteChars(s) \o <<Quote>>

RECURSIVE stringify(_)
RECURSIVE StringifyElems(_)
RECURSIVE StringifyMembers(_, _)
StringifyElems(items) ==
  IF items = <<>> THEN <<>>
  ELSE stringify(Head(items))
       \o (IF Len(items) > 1 THEN <<",">> \o StringifyElems(Tail(items)) ELSE <<>>)

StringifyMembers(keys, items) ==
  IF keys = <<>> THEN <<>>
  ELSE QuoteJSONString(Head(keys)) \o <<":">> \o stringify(Head(items))
       \o (IF Len(keys) > 1 THEN <<",">> \o StringifyMembers(Tail(keys), Tail(items))
           ELSE <<>>)

stringify(v) ==
  CASE v.t = "null" -> TextNull
    [] v.t = "true" -> TextTrue
    [] v.t = "false" -> TextFalse
    [] v.t = "num" -> NumberToText(v.n)
    [] v.t \in {"nan", "inf", "ninf"} -> TextNull
    [] v.t = "str" -> QuoteJSONString(v.s)
    [] v.t = "arr" -> <<"[">> \o StringifyElems(v.items) \o <<"]">>
    [] OTHER -> <<"{">> \o StringifyMembers(v.keys, v.items) \o <<"}">>


(***************************************************************************)
(* JSToString(value): the string a value is coerced to when a string is    *)
(* expected (JSON.parse, parseFloat and new Error all coerce).             *)
(***************************************************************************)
RECURSIVE JSToString(_)
RECURSIVE JoinElems(_)
JoinElems(items) ==
  IF items = <<>> THEN <<>>
  ELSE (IF Head(items).t = "null" THEN <<>> ELSE JSToString(Head(items)))
       \o (IF Len(items) > 1 THEN <<",">> \o JoinElems(Tail(items)) ELSE <<>>)

JSToString(v) ==
  CASE v.t = "str" -> v.s
    [] v.t = "num" -> NumberToText(v.n)
    [] v.t = "null" -> TextNull
    [] v.t = "true" -> TextTrue
    [] v.t = "false" -> TextFalse
    [] v.t = "nan" -> TextNaN
    [] v.t = "inf" -> TextInfinity
    [] v.t = "ninf" -> <<"-">> \o TextInfinity
    [] v.t = "arr" -> JoinElems(v.items)
    [] OTHER -> TextObject

(***************************************************************************)
(* JSON.parse(text): a recursive-descent parser of the JSON grammar over   *)
(* the characters of the model (integers without fraction or exponent;     *)
(* the escapes \" \\ \/ \n \t \r \f).  A parse step yields                 *)
(* [ok, v, pos]: pos is the position after what was read.                  *)
(***************************************************************************)
ParseFail == [ok |-> FALSE, v |-> Null, pos |-> 0]
ParseOk(v, pos) == [ok |-> TRUE, v |-> v, pos |-> pos]

IsWhitespace(c) == c \in {" ", "\t", "\n", "\r"}

RECURSIVE SkipWs(_, _)
SkipWs(txt, pos) ==
  IF pos <= Len(txt) /\ IsWhitespace(txt[pos]) THEN SkipWs(txt, pos + 1) ELSE pos

\* the character an escape letter stands for, "" when it is no escape
Unescape(c) ==
  CASE c = Quote -> Quote
    [] c = Backslash -> Backslash
    [] c = "/" -> "/"
    [] c = "n" -> "\n"
    [] c = "t" -> "\t"
    [] c = "r" -> "\r"
    [] c = "f" -> "\f"
    [] OTHER -> ""

\* the string literal whose opening quote is before pos; acc is what was read
RECURSIVE ScanString(_, _, _)
ScanString(txt, pos, acc) ==
  IF pos > Len(txt) THEN ParseFail
  ELSE IF txt[pos] = Quote THEN ParseOk(Str(acc), pos + 1)
  ELSE IF txt[pos] = Backslash
    THEN IF pos + 1 > Len(txt) \/ Unescape(txt[pos + 1]) = "" THEN ParseFail
         ELSE ScanString(txt, pos + 2, Append(acc, Unescape(txt[pos + 1])))
  ELSE IF txt[pos] \in {"\n", "\t", "\r", "\f"} THEN ParseFail
  ELSE ScanString(txt, pos + 1, Append(acc, txt[pos]))

RECURSIVE ScanDigits(_, _, _)
ScanDigits(txt, pos, acc) ==
  IF pos <= Len(txt) /\ IsDigit(txt[pos])
  THEN ScanDigits(txt, pos + 1, acc * 10 + DigitValue(txt[pos]))
  ELSE [n |-> acc, pos |-> pos]

ParseNumber(txt, pos) ==
  LET neg == txt[pos] = "-"
      p1 == IF neg THEN pos + 1 ELSE pos
  IN IF p1 > Len(txt) \/ ~IsDigit(txt[p1]) THEN ParseFail
     ELSE IF txt[p1] = "0" THEN ParseOk(Num(0), p1 + 1)
     ELSE LET r == ScanDigits(txt, p1, 0)
          IN ParseOk(Num(IF neg THEN -(r.n) ELSE r.n), r.pos)

\* the index of key k in keys, 0 when absent
KeyIndex(keys, k) ==
  IF \E x \in 1..Len(keys) : keys[x] = k
  THEN CHOOSE x \in 1..Len(keys) : keys[x] = k
  ELSE 0

RECURSIVE ParseValue(_, _)
RECURSIVE ParseElems(_, _, _)
RECURSIVE ParseMembers(_, _, _, _)
\* pos is at the start of an element; acc holds the elements read so far
ParseElems(txt, pos, acc) ==
  LET r == ParseValue(txt, pos)
      p == SkipWs(txt, r.pos)
  IN IF ~r.ok \/ p > Len(txt) THEN ParseFail
     ELSE IF txt[p] = "," THEN ParseElems(txt, p + 1, Append(acc, r.v))
     ELSE IF txt[p] = "]" THEN ParseOk(Arr(Append(acc, r.v)), p + 1)
     ELSE ParseFail

\* pos is at the start of a member; keys and items hold the members read so far
ParseMembers(txt, pos, keys, items) ==
  LET p0 == SkipWs(txt, pos)
      k == IF p0 <= Len(txt) /\ txt[p0] = Quote
           THEN ScanString(txt, p0 + 1, <<>>) ELSE ParseFail
      p1 == SkipWs(txt, k.pos)
      r == IF k.ok /\ p1 <= Len(txt) /\ txt[p1] = ":"
           THEN ParseValue(txt, p1 + 1) ELSE ParseFail
      p2 == SkipWs(txt, r.pos)
      at == KeyIndex(keys, k.v.s)
      \* a repeated name keeps its first place and takes the last value
      keys2 == IF at = 0 THEN Append(keys, k.v.s) ELSE keys
      items2 == IF at = 0 THEN Append(items, r.v) ELSE [items EXCEPT ![at] = r.v]
  IN IF ~r.ok \/ p2 > Len(txt) THEN ParseFail
     ELSE IF txt[p2] = "," THEN ParseMembers(txt, p2 + 1, keys2, items2)
     ELSE IF txt[p2] = "}" THEN ParseOk(Obj(keys2, items2), p2 + 1)
     ELSE ParseFail

ParseValue(txt, pos) ==
  LET p == SkipWs(txt, pos)
      q == SkipWs(txt, p + 1)
  IN IF p > Len(txt) THEN ParseFail
     ELSE IF StartsAt(txt, p, TextNull) THEN ParseOk(Null, p + Len(TextNull))
     ELSE IF StartsAt(txt, p, TextTrue) THEN ParseOk(True, p + Len(TextTrue))
     ELSE IF StartsAt(txt, p, TextFalse) THEN ParseOk(False, p + Len(TextFalse))
     ELSE IF txt[p] = Quote THEN ScanString(txt, p + 1, <<>>)
     ELSE IF txt[p] = "-" \/ IsDigit(txt[p]) THEN ParseNumber(txt, p)
     ELSE IF txt[p] = "["
       THEN IF q <= Len(txt) /\ txt[q] = "]" THEN ParseOk(Arr(<<>>), q + 1)
            ELSE ParseElems(txt, p + 1, <<>>)
     ELSE IF txt[p] = "{"
       THEN IF q <= Len(txt) /\ txt[q] = "}" THEN ParseOk(Obj(<<>>, <<>>), q + 1)
            ELSE ParseMembers(txt, p + 1, <<>>, <<>>)
     ELSE ParseFail

\* JSON.parse(v): the value, or the SyntaxError it throws
parse(v) ==
  LET txt == JSToString(v)
      r == ParseValue(txt, 1)
  IN IF r.ok /\ SkipWs(txt, r.pos) = Len(txt) + 1 THEN r.v
     ELSE Err("SyntaxError", <<>>)

(***************************************************************************)
(* parseFloat(v): the longest numeric prefix of JSToString(v) after leading  *)
(* whitespace, NaN when there is none.                                     *)
(***************************************************************************)
parseFloat(v) ==
  LET txt == JSToString(v)
      p == SkipWs(txt, 1)
      signed == p <= Len(txt) /\ txt[p] \in {"-", "+"}
      neg == signed /\ txt[p] = "-"
      p1 == IF signed THEN p + 1 ELSE p
      r == ScanDigits(txt, p1, 0)
  IN IF StartsAt(txt, p1, TextInfinity) THEN (IF neg THEN NegInf ELSE PosInf)
     ELSE IF r.pos = p1 THEN NaN
     ELSE Num(IF neg THEN -(r.n) ELSE r.n)

(***************************************************************************)
(* The command table and the binder.                                       *)
(***************************************************************************)
\* static commands
commands ==
  << "JSON.DEL", "JSON.GET", "JSON.MGET", "JSON.SET", "JSON.TYPE",
     "JSON.NUMINCRBY", "JSON.NUMMULTBY", "JSON.STRAPPEND", "JSON.STRLEN",
     "JSON.ARRAPPEND", "JSON.ARRINDEX", "JSON.ARRINSERT", "JSON.ARRLEN",
     "JSON.ARRPOP", "JSON.ARRTRIM", "JSON.OBJKEYS", "JSON.OBJLEN",
     "JSON.DEBUG", "JSON.FORGET", "JSON.RESP" >>

\* the client instances
Instances == {1, 2}

\* this.createBuiltinCommand(command): the pair of unbound command functions,
\* one decoding replies as text, one leaving them as buffers
createBuiltinCommand(command) ==
  [ string |-> [command |-> command, mode |-> "string"],
    buffer |-> [command |-> command, mode |-> "buffer"] ]

\* a faulty variant of Bind: every invoker sends through one shared connection
BindShared(fn, self) == [command |-> fn.command, mode |-> fn.mode, ctx |-> 1]

\* fn.bind(self): the invoker sends through the connection of self
Bind(fn, self) == [command |-> fn.command, mode |-> fn.mode, ctx |-> self]

\* this.cmds = {}
NoCmds == [name \in {} |-> 0]

\* a faulty variant of ConstructLoop: the buffer invoker is not stored
RECURSIVE ConstructLoopNoBuffer(_, _, _)
ConstructLoopNoBuffer(self, x, acc) ==
  IF x > Len(commands) THEN acc
  ELSE LET command == commands[x]
           cmd == createBuiltinCommand(command)
       IN ConstructLoopNoBuffer(self, x + 1,
            [ cmds |-> (command :> Bind(cmd.string, self)) @@ acc.cmds,
              registered |-> Append(acc.registered, command) ])

\* the constructor's loop from index x on; acc is [cmds, registered] so far
RECURSIVE ConstructLoop(_, _, _)
ConstructLoop(self, x, acc) ==
  IF x > Len(commands) THEN acc
  ELSE LET command == commands[x]
           cmd == createBuiltinCommand(command)
       IN ConstructLoop(self, x + 1,
            [ cmds |-> ((command \o "Buffer") :> Bind(cmd.buffer, self))
                       @@ (command :> Bind(cmd.string, self))
                       @@ acc.cmds,
              registered |-> Append(acc.registered, command) ])

(***************************************************************************)
(* Futures.                                                                *)
(***************************************************************************)
Pending == [state |-> "pending", v |-> Null]
Resolved(v) == [state |-> "resolved", v |-> v]
Rejected(e) == [state |-> "rejected", v |-> e]
\* the outcome of a callback that returns v or throws it
Returned(v) == IF IsError(v) THEN Rejected(v) ELSE Resolved(v)

TextOK == <<"O", "K">>

(***************************************************************************)
(* The facade methods.  Each yields the invocation it makes:               *)
(*   cmd   the name looked up in this.cmds                                 *)
(*   args  the argument list the invoker is called with                    *)
(*   then  the callback chained on the invoker's future ("" when the       *)
(*         invoker's future is returned as it is)                          *)
(* `self` is `this`, `args` the arguments of the call.                     *)
(***************************************************************************)
Invocation(cmd, args, then) == [cmd |-> cmd, args |-> args, then |-> then]

jsonSet(self, args) ==
  LET key == args[1]
      path == args[2]
      value == args[3]
      _value == Str(stringify(value))
  IN Invocation("JSON.SET", <<key, path, _value>>, "jsonSet")

jsonGet(self, args) ==
  LET key == args[1]
      path == args[2]
  IN Invocation("JSON.GET", <<key, path>>, "jsonGet")

jsonMget(self, args) ==
  LET _arguments == args
  IN Invocation("JSON.MGET", _arguments, "jsonMget")

jsonDel(self, args) ==
  LET key == args[1]
      path == args[2]
  IN Invocation("JSON.DEL", <<key, path>>, "jsonDel")

jsonobjkeys(self, args) ==
  LET key == args[1]
      path == args[2]
  IN Invocation("JSON.OBJKEYS", <<This(self), key, path>>, "")

jsonObjlen(self, args) ==
  LET key == args[1]
      path == args[2]
  IN Invocation("JSON.OBJLEN", <<key, path>>, "")

jsonType(self, args) ==
  LET key == args[1]
      path == args[2]
  IN Invocation("JSON.TYPE", <<key, path>>, "")

\* a faulty variant of jsonNumincrby: the number is encoded like a document value
jsonNumincrbyEncoded(self, args) ==
  Invocation("JSON.NUMINCRBY", <<args[1], args[2], Str(stringify(args[3]))>>,
             "jsonNumincrby")

jsonNumincrby(self, args) ==
  LET key == args[1]
      path == args[2]
      number == args[3]
  IN Invocation("JSON.NUMINCRBY", <<key, path, number>>, "jsonNumincrby")

jsonNummultby(self, args) ==
  LET key == args[1]
      path == args[2]
      number == args[3]
  IN Invocation("JSON.NUMMULTBY", <<key, path, number>>, "jsonNummultby")

jsonStrappend(self, args) ==
  LET key == args[1]
      path == args[2]
      string == args[3]
  IN Invocation("JSON.STRAPPEND", <<key, path, Str(stringify(string))>>, "")

\* a faulty variant of jsonStrlen: the binary invoker is looked up
jsonStrlenBuffer(self, args) ==
  Invocation("JSON.STRLENBuffer", <<args[1], args[2]>>, "")

jsonStrlen(self, args) ==
  LET key == args[1]
      path == args[2]
  IN Invocation("JSON.STRLEN", <<key, path>>, "")

\* _arguments.slice(from): the arguments after the first `from`
Slice(_arguments, from) == SubSeq(_arguments, from + 1, Len(_arguments))
\* _arguments.slice(0, to): the first `to` arguments (fewer when there are fewer)
SliceTo(_arguments, to) ==
  SubSeq(_arguments, 1, IF to < Len(_arguments) THEN to ELSE Len(_arguments))
\* map(items, item => JSON.stringify(item))
MapStringify(items) == [x \in 1..Len(items) |-> Str(stringify(items[x]))]

jsonArrappend(self, args) ==
  LET _arguments == args
      fixed == SliceTo(_arguments, 2)
      items == MapStringify(Slice(_arguments, 2))
  IN Invocation("JSON.ARRAPPEND", fixed \o items, "")

jsonArrindex(self, args) ==
  LET key == args[1]
      path == args[2]
      scalar == args[3]
  IN Invocation("JSON.ARRINDEX", <<key, path, Str(stringify(scalar))>>, "")

\* a faulty variant of jsonArrinsert: the prefix is cut after the path, as in
\* jsonArrappend, so that the index is encoded with the elements
jsonArrinsertShortPrefix(self, args) ==
  Invocation("JSON.ARRINSERT",
             SubSeq(args, 1, 2)
               \o [x \in 1..(Len(args) - 2) |-> Str(stringify(args[x + 2]))],
             "")

jsonArrinsert(self, args) ==
  LET _arguments == args
      fixed == SliceTo(_arguments, 3)
      items == MapStringify(Slice(_arguments, 3))
  IN Invocation("JSON.ARRINSERT", fixed \o items, "")

jsonArrlen(self, args) ==
  LET key == args[1]
      path == args[2]
  IN Invocation("JSON.ARRLEN", <<key, path>>, "")

jsonArrpop(self, args) ==
  LET key == args[1]
      path == args[2]
      index == args[3]
  IN Invocation("JSON.ARRPOP", <<key, path, index>>, "jsonArrpop")

jsonArrtrim(self, args) ==
  LET key == args[1]
      path == args[2]
      start == args[3]
      end == args[4]
  IN Invocation("JSON.ARRTRIM", <<key, path, start, end>>, "")

Methods ==
  { "jsonSet", "jsonGet", "jsonMget", "jsonDel", "jsonobjkeys", "jsonObjlen",
    "jsonType", "jsonNumincrby", "jsonNummultby", "jsonStrappend", "jsonStrlen",
    "jsonArrappend", "jsonArrindex", "jsonArrinsert", "jsonArrlen", "jsonArrpop",
    "jsonArrtrim" }

\* the method named m of instance self, applied to args
Facade(m, self, args) ==
  CASE m = "jsonSet" -> jsonSet(self, args)
    [] m = "jsonGet" -> jsonGet(self, args)
    [] m = "jsonMget" -> jsonMget(self, args)
    [] m = "jsonDel" -> jsonDel(self, args)
    [] m = "jsonobjkeys" -> jsonobjkeys(self, args)
    [] m = "jsonObjlen" -> jsonObjlen(self, args)
    [] m = "jsonType" -> jsonType(self, args)
    [] m = "jsonNumincrby" -> jsonNumincrby(self, args)
    [] m = "jsonNummultby" -> jsonNummultby(self, args)
    [] m = "jsonStrappend" -> jsonStrappend(self, args)
    [] m = "jsonStrlen" -> jsonStrlen(self, args)
    [] m = "jsonArrappend" -> jsonArrappend(self, args)
    [] m = "jsonArrindex" -> jsonArrindex(self, args)
    [] m = "jsonArrinsert" -> jsonArrinsert(self, args)
    [] m = "jsonArrlen" -> jsonArrlen(self, args)
    [] m = "jsonArrpop" -> jsonArrpop(self, args)
    [] m = "jsonArrtrim" -> jsonArrtrim(self, args)

(***************************************************************************)
(* The callbacks chained with .then: each yields the outcome of the        *)
(* facade method's future for a fulfilled reply.                           *)
(***************************************************************************)
\* a faulty variant of jsonSetThen: the comparison is returned, nothing is thrown
jsonSetThenBoolean(result) ==
  Resolved(IF result = Str(TextOK) THEN True ELSE False)

jsonSetThen(result) ==
  IF result = Str(TextOK) THEN Resolved(True)
  ELSE Rejected(Err("Error", JSToString(result)))

\* a faulty variant of jsonGetThen: the reply text is returned undecoded
jsonGetThenRaw(value) == Resolved(value)

jsonGetThen(value) == Returned(parse(value))

\* the elements lodash's map visits: those of an array, the characters of a
\* string, none of anything else
MapElements(results) ==
  CASE results.t = "arr" -> results.items
    [] results.t = "str" -> [x \in 1..Len(results.s) |-> Str(<<results.s[x]>>)]
    [] OTHER -> <<>>

\* a faulty variant of jsonMgetThen: the reply is returned undecoded
jsonMgetThenRaw(results) == Resolved(results)

jsonMgetThen(results) ==
  LET elems == MapElements(results)
      mapped == [x \in 1..Len(elems) |-> parse(elems[x])]
      thrown == {x \in 1..Len(elems) : IsError(mapped[x])}
  IN IF thrown = {} THEN Resolved(Arr(mapped))
     ELSE Rejected(mapped[CHOOSE x \in thrown : \A y \in thrown : x <= y])

jsonDelThen(result) == Resolved(IF result = Num(1) THEN True ELSE False)

jsonNumincrbyThen(result) == Resolved(parseFloat(result))

jsonNummultbyThen(result) == Resolved(parseFloat(result))

jsonArrpopThen(result) == Returned(parse(result))

\* the callback named `then`, applied to a fulfilled reply
Callback(then, result) ==
  CASE then = "jsonSet" -> jsonSetThen(result)
    [] then = "jsonGet" -> jsonGetThen(result)
    [] then = "jsonMget" -> jsonMgetThen(result)
    [] then = "jsonDel" -> jsonDelThen(result)
    [] then = "jsonNumincrby" -> jsonNumincrbyThen(result)
    [] then = "jsonNummultby" -> jsonNummultbyThen(result)
    [] then = "jsonArrpop" -> jsonArrpopThen(result)

\* a faulty variant of ThenOutcome: the callback is chained for rejections too
ThenOutcomeBoth(then, raw) == [out |-> Callback(then, raw.v), ran |-> TRUE]

\* promise.then(callback): a rejection passes by the callback unchanged
ThenOutcome(then, raw) ==
  IF raw.state = "rejected" THEN [out |-> raw, ran |-> FALSE]
  ELSE [out |-> Callback(then, raw.v), ran |-> TRUE]

(***************************************************************************)
(* The state.                                                              *)
(*   cmds[i]        this.cmds of instance i (empty before construction)    *)
(*   registered[i]  the names instance i passed to createBuiltinCommand    *)
(*   call[i]        the facade call in flight on instance i                *)
(*   net[j]         the requests sent through the connection of instance   *)
(*                  j and not yet answered, oldest first                   *)
(*   store[j]       the document text the store behind connection j holds  *)
(*                  at each (key, path)                                    *)
(*   written[j]     the value given to the set whose text store[j] holds   *)
(*   served[j]      the (key, path) of the last get the store answered     *)
(***************************************************************************)
VARIABLES cmds, registered, call, net, store, written, served

vars == <<cmds, registered, call, net, store, written, served>>

\* the arguments the callers of the model pass
Keys == {Str(<<"k">>), Str(<<"j">>)}
Paths == {Str(<<".">>)}
Operands == {Null, Num(12), Str(<<"a", Quote>>), Arr(<<NaN>>)}
Elements == {Num(12), Str(<<"a">>)}
Numbers == {Num(5), Num(-1)}
Indices == {Num(0), Num(-1)}
SeqsOf(S, lo, hi) == UNION {[1..n -> S] : n \in lo..hi}

ArgLists(m) ==
  CASE m \in {"jsonSet", "jsonStrappend", "jsonArrindex"} ->
         {<<k, p, v>> : k \in Keys, p \in Paths, v \in Operands}
    [] m \in {"jsonNumincrby", "jsonNummultby"} ->
         {<<k, p, x>> : k \in Keys, p \in Paths, x \in Numbers}
    [] m = "jsonArrpop" ->
         {<<k, p, x>> : k \in Keys, p \in Paths, x \in Indices}
    [] m = "jsonArrtrim" ->
         {<<k, p, a, b>> : k \in Keys, p \in Paths, a \in Indices, b \in Indices}
    [] m = "jsonArrappend" ->
         {<<k, p>> \o es : k \in Keys, p \in Paths, es \in SeqsOf(Elements, 0, MaxElems)}
    [] m = "jsonArrinsert" ->
         {<<k, p, x>> \o es : k \in Keys, p \in Paths, x \in Indices,
                              es \in SeqsOf(Elements, 0, MaxElems)}
    [] m = "jsonMget" ->
         {ks \o <<p>> : ks \in SeqsOf(Keys, 1, MaxKeys), p \in Paths}
    [] OTHER -> {<<k, p>> : k \in Keys, p \in Paths}

\* what a transport may answer: a status, an integer, nil, document text,
\* text that is no document, a sequence of texts and nils
RawReplies ==
  { Str(TextOK), Num(1), Null, Str(<<"[", "7", "]">>), Str(<<"{">>),
    Arr(<<Str(<<"7">>), Null>>) }
TransportErrors == {Err("ReplyError", <<"E">>)}

\* the values the callers of the document store pass
Atoms == {Num(-12), NaN, Str(<<"a", Quote, Backslash>>)}
DocValues ==
  {Null, True, False, Num(0), Num(7), Num(-12), NaN, PosInf, NegInf,
   Str(<<>>), Str(<<"a", Quote, Backslash>>)}
  \cup {Arr(es) : es \in SeqsOf(Atoms, 0, 2)}
  \cup {Obj(<<<<"a">>>>, <<x>>) : x \in Atoms}
  \cup {Obj(<<<<"b", Quote>>, <<"a">>>>, <<x, Arr(<<True>>)>>) : x \in Atoms}
  \cup {Arr(<<Obj(<<<<"a">>>>, <<Arr(<<x>>)>>)>>) : x \in Atoms}

StoreMethods == {"jsonSet", "jsonGet", "jsonDel"}
StoreArgLists(m) ==
  IF m = "jsonSet" THEN {<<k, p, v>> : k \in Keys, p \in Paths, v \in DocValues}
  ELSE {<<k, p>> : k \in Keys, p \in Paths}

\* the places of the store, and the mark of a place nothing was written to
Places == {<<k.s, p.s>> : k \in Keys, p \in Paths}
Nothing == Val("none", 0, <<>>, <<>>, <<>>)

Idle ==
  [ pc |-> "idle", method |-> "", args |-> <<>>, then |-> "",
    raw |-> Pending, out |-> Pending, ran |-> FALSE ]

Init ==
  /\ cmds = [i \in Instances |-> NoCmds]
  /\ registered = [i \in Instances |-> <<>>]
  /\ call = [i \in Instances |-> Idle]
  /\ net = [i \in Instances |-> <<>>]
  /\ store = [i \in Instances |-> [pl \in Places |-> Null]]
  /\ written = [i \in Instances |-> [pl \in Places |-> Nothing]]
  /\ served = [i \in Instances |-> <<>>]

(***************************************************************************)
(* new Rejson(opts): the whole constructor.                                *)
(***************************************************************************)
Construct(self) ==
  /\ registered[self] = <<>>
  /\ LET built == ConstructLoop(self, 1, [cmds |-> NoCmds, registered |-> <<>>])
     IN /\ cmds' = [cmds EXCEPT ![self] = built.cmds]
        /\ registered' = [registered EXCEPT ![self] = built.registered]
  /\ UNCHANGED <<call, net, store, written, served>>

(***************************************************************************)
(* A facade method called on a constructed instance: everything it does    *)
(* before it returns its future.  cmd(...) sends one request through the   *)
(* connection the invoker is bound to.                                     *)
(***************************************************************************)
Request(cmd, args, from) ==
  [command |-> cmd.command, mode |-> cmd.mode, args |-> args, from |-> from]

Invoke(self, m, args) ==
  /\ DOMAIN cmds[self] # {}
  /\ call[self].pc = "idle"
  /\ LET f == Facade(m, self, args)
         cmd == cmds[self][f.cmd]
     IN /\ net' = [net EXCEPT ![cmd.ctx] = Append(@, Request(cmd, f.args, self))]
        /\ call' = [call EXCEPT ![self] =
                      [ pc |-> "awaiting", method |-> m, args |-> args,
                        then |-> f.then, raw |-> Pending, out |-> Pending,
                        ran |-> FALSE ]]
  /\ UNCHANGED <<cmds, registered, store, written, served>>

Call(self) == \E m \in Methods : \E args \in ArgLists(m) : Invoke(self, m, args)

(***************************************************************************)
(* The transport answers the oldest request of connection j with           *)
(* `outcome`.  A method that chained no callback returned the invoker's    *)
(* own future, which settles here; its arguments are dead from then on.    *)
(***************************************************************************)
Answer(j, outcome) ==
  LET c == Head(net[j]).from
  IN /\ net' = [net EXCEPT ![j] = Tail(@)]
     /\ call' = [call EXCEPT ![c] =
                   IF @.then = ""
                   THEN [@ EXCEPT !.pc = "settled", !.args = <<>>,
                                  !.raw = outcome, !.out = outcome]
                   ELSE [@ EXCEPT !.pc = "replied", !.args = <<>>,
                                  !.raw = outcome]]

\* any transport: the reply is not determined by this program
TransportReply(j) ==
  /\ net[j] # <<>>
  /\ \/ \E v \in RawReplies : Answer(j, Resolved(v))
     \/ \E e \in TransportErrors : Answer(j, Rejected(e))
  /\ UNCHANGED <<cmds, registered, store, written, served>>

\* the callback chained with .then runs (or is passed by, on a rejection)
Then(self) ==
  /\ call[self].pc = "replied"
  /\ LET r == ThenOutcome(call[self].then, call[self].raw)
     IN call' = [call EXCEPT ![self] =
                   [@ EXCEPT !.pc = "settled", !.out = r.out, !.ran = r.ran]]
  /\ UNCHANGED <<cmds, registered, net, store, written, served>>

\* the caller has taken the outcome
Finish(self) ==
  /\ call[self].pc = "settled"
  /\ call' = [call EXCEPT ![self] = Idle]
  /\ UNCHANGED <<cmds, registered, net, store, written, served>>

Next ==
  \E i \in Instances :
    \/ Construct(i)
    \/ Call(i)
    \/ TransportReply(i)
    \/ Then(i)
    \/ Finish(i)

Spec == Init /\ [][Next]_vars

(***************************************************************************)
(* A document store as the transport: it keeps the text a set gives it at  *)
(* (key, path), returns that text to a get (nil when there is none), and   *)
(* removes it on a del.  Any request may also fail.                        *)
(***************************************************************************)
StoreClients == {1}

StoreCall(self) ==
  \E m \in StoreMethods : \E args \in StoreArgLists(m) : Invoke(self, m, args)

StoreReply(j) ==
  /\ net[j] # <<>>
  /\ LET f == Head(net[j])
         pl == <<f.args[1].s, f.args[2].s>>
     IN \/ /\ f.command = "JSON.SET"
           /\ Answer(j, Resolved(Str(TextOK)))
           /\ store' = [store EXCEPT ![j][pl] = f.args[3]]
           /\ written' = [written EXCEPT ![j][pl] = call[f.from].args[3]]
           /\ UNCHANGED served
        \/ /\ f.command = "JSON.GET"
           /\ Answer(j, Resolved(store[j][pl]))
           /\ served' = [served EXCEPT ![j] = pl]
           /\ UNCHANGED <<store, written>>
        \/ /\ f.command = "JSON.DEL"
           /\ Answer(j, Resolved(Num(IF store[j][pl] = Null THEN 0 ELSE 1)))
           /\ store' = [store EXCEPT ![j][pl] = Null]
           /\ written' = [written EXCEPT ![j][pl] = Nothing]
           /\ UNCHANGED served
        \/ /\ \E e \in TransportErrors : Answer(j, Rejected(e))
           /\ UNCHANGED <<store, written, served>>
  /\ UNCHANGED <<cmds, registered>>

StoreNext ==
  \E i \in StoreClients :
    \/ Construct(i)
    \/ StoreCall(i)
    \/ StoreReply(i)
    \/ Then(i)
    \/ Finish(i)

SpecStore == Init /\ [][StoreNext]_vars

(***************************************************************************)
(* Vocabulary of the statements below.                                     *)
(***************************************************************************)
\* where the requests of instance i wait: <<connection, position>>
FramesOf(i) ==
  {jx \in UNION {{<<j, x>> : x \in 1..Len(net[j])} : j \in Instances} :
     net[jx[1]][jx[2]].from = i}
\* the argument lists instance i has handed to invokers and that wait
SentOf(i) == {net[jx[1]][jx[2]].args : jx \in FramesOf(i)}

Constructed(i) == registered[i] # <<>>
Awaiting(i, m) == call[i].pc = "awaiting" /\ call[i].method = m
Settled(i, m) == call[i].pc = "settled" /\ call[i].method = m

\* the facade methods of the (key, path, ...) shape
KeyPathMethods == Methods \ {"jsonMget"}

\* the wire command of each public method (the public surface of the client)
WireCommand(m) ==
  CASE m = "jsonSet" -> "JSON.SET"
    [] m = "jsonGet" -> "JSON.GET"
    [] m = "jsonMget" -> "JSON.MGET"
    [] m = "jsonDel" -> "JSON.DEL"
    [] m = "jsonobjkeys" -> "JSON.OBJKEYS"
    [] m = "jsonObjlen" -> "JSON.OBJLEN"
    [] m = "jsonType" -> "JSON.TYPE"
    [] m = "jsonNumincrby" -> "JSON.NUMINCRBY"
    [] m = "jsonNummultby" -> "JSON.NUMMULTBY"
    [] m = "jsonStrappend" -> "JSON.STRAPPEND"
    [] m = "jsonStrlen" -> "JSON.STRLEN"
    [] m = "jsonArrappend" -> "JSON.ARRAPPEND"
    [] m = "jsonArrindex" -> "JSON.ARRINDEX"
    [] m = "jsonArrinsert" -> "JSON.ARRINSERT"
    [] m = "jsonArrlen" -> "JSON.ARRLEN"
    [] m = "jsonArrpop" -> "JSON.ARRPOP"
    [] m = "jsonArrtrim" -> "JSON.ARRTRIM"

\* how often name occurs in the sequence names
Occurrences(names, name) == Cardinality({x \in 1..Len(names) : names[x] = name})

\* v is built of null, booleans, finite numbers, strings, arrays and objects
RECURSIVE IsJSONValue(_)
IsJSONValue(v) ==
  CASE v.t \in {"null", "true", "false", "num", "str"} -> TRUE
    [] v.t \in {"arr", "obj"} -> \A x \in 1..Len(v.items) : IsJSONValue(v.items[x])
    [] OTHER -> FALSE

\* deep equality: same type and content, the properties of an object in any order
RECURSIVE DeepEqual(_, _)
DeepEqual(a, b) ==
  /\ a.t = b.t
  /\ CASE a.t = "num" -> a.n = b.n
       [] a.t = "str" -> a.s = b.s
       [] a.t = "arr" ->
            /\ Len(a.items) = Len(b.items)
            /\ \A x \in 1..Len(a.items) : DeepEqual(a.items[x], b.items[x])
       [] a.t = "obj" ->
            /\ Len(a.keys) = Len(b.keys)
            /\ \A x \in 1..Len(a.keys) :
                 /\ KeyIndex(b.keys, a.keys[x]) # 0
                 /\ DeepEqual(a.items[x], b.items[KeyIndex(b.keys, a.keys[x])])
       [] OTHER -> TRUE

(***************************************************************************)
(* C1.  Every facade method of the (key, path, ...) shape calls its        *)
(* invoker with the caller's key first and the caller's path second, both  *)
(* unchanged, and nothing before them.                                     *)
(***************************************************************************)
C1_KeyPathLead ==
  \A i \in Instances :
    (call[i].pc = "awaiting" /\ call[i].method \in KeyPathMethods) =>
      \A sent \in SentOf(i) :
        /\ Len(sent) >= 2
        /\ sent[1] = call[i].args[1]
        /\ sent[2] = call[i].args[2]

(***************************************************************************)
(* C2.  set resolves to true exactly when the reply is the status "OK";    *)
(* for any other reply its future fails with an Error whose message is     *)
(* that reply; it never resolves to anything but true.                     *)
(***************************************************************************)
C2_SetOutcome ==
  \A i \in Instances :
    Settled(i, "jsonSet") =>
      LET raw == call[i].raw
          out == call[i].out
      IN /\ (out.state = "resolved") <=> (raw = Resolved(Str(TextOK)))
         /\ out.state = "resolved" => out.v = True
         /\ (raw.state = "resolved" /\ raw.v # Str(TextOK)) =>
              /\ out.state = "rejected"
              /\ out.v.t = "Error"
              /\ out.v.s = JSToString(raw.v)

C2_Witness ==
  \E i \in Instances :
    /\ Settled(i, "jsonSet")
    /\ call[i].raw = Resolved(Num(1))
    /\ call[i].out = Rejected(Err("Error", <<"1">>))

(***************************************************************************)
(* C3.  arrAppend and arrInsert hand the invoker the fixed prefix (key,    *)
(* path; for insert also index) as given, followed by exactly one          *)
(* argument per element, the i-th being the encoding of the i-th element.  *)
(***************************************************************************)
C3_VariadicMarshal ==
  \A i \in Instances :
    \A m \in {"jsonArrappend", "jsonArrinsert"} :
      Awaiting(i, m) =>
        LET given == call[i].args
            k == IF m = "jsonArrappend" THEN 2 ELSE 3
        IN \A sent \in SentOf(i) :
             /\ Len(sent) = Len(given)
             /\ \A x \in 1..k : sent[x] = given[x]
             /\ \A x \in (k + 1)..Len(given) : sent[x] = Str(stringify(given[x]))

C3_Witness ==
  \E i \in Instances :
    /\ Awaiting(i, "jsonArrinsert")
    /\ call[i].args =
         <<Str(<<"k">>), Str(<<".">>), Num(-1), Str(<<"a">>), Num(12)>>
    /\ SentOf(i) =
         {<<Str(<<"k">>), Str(<<".">>), Num(-1),
            Str(<<Quote, "a", Quote>>), Str(<<"1", "2">>)>>}

(***************************************************************************)
(* C4.  multiGet hands all its arguments to the invoker unchanged and in   *)
(* order; for a reply that is a sequence it resolves to a sequence of the  *)
(* same length whose i-th element is the decoding of the i-th reply        *)
(* element (and fails with the decoder's error when one does not decode).  *)
(***************************************************************************)
C4_MultiGet ==
  \A i \in Instances :
    /\ Awaiting(i, "jsonMget") => SentOf(i) = {call[i].args}
    /\ (Settled(i, "jsonMget") /\ call[i].raw.state = "resolved"
          /\ call[i].raw.v.t = "arr") =>
         LET reply == call[i].raw.v.items
             out == call[i].out
         IN IF \A x \in 1..Len(reply) : ~IsError(parse(reply[x]))
            THEN /\ out.state = "resolved"
                 /\ out.v.t = "arr"
                 /\ Len(out.v.items) = Len(reply)
                 /\ \A x \in 1..Len(reply) : out.v.items[x] = parse(reply[x])
            ELSE out.state = "rejected" /\ out.v.t = "SyntaxError"

C4_Witness ==
  \E i \in Instances :
    /\ Settled(i, "jsonMget")
    /\ call[i].raw = Resolved(Arr(<<Str(<<"7">>), Null>>))
    /\ call[i].out = Resolved(Arr(<<Num(7), Null>>))

(***************************************************************************)
(* C5.  Against the document store, a get that follows an acknowledged set *)
(* of v at the same (key, path), with no write in between, resolves to a   *)
(* value deep-equal to v.                                                  *)
(***************************************************************************)
\* as stated: for every v among null, booleans, numbers, strings, arrays, objects
C5_RoundTripAnyNumber ==
  \A i \in StoreClients :
    (Settled(i, "jsonGet") /\ call[i].raw.state = "resolved"
       /\ served[i] \in Places
       /\ written[i][served[i]] # Nothing) =>
      /\ call[i].out.state = "resolved"
      /\ DeepEqual(call[i].out.v, written[i][served[i]])

\* C5 as amended: for every v built of null, booleans, finite numbers, strings,
\* arrays and objects
C5_RoundTripFinite ==
  \A i \in StoreClients :
    (Settled(i, "jsonGet") /\ call[i].raw.state = "resolved"
       /\ served[i] \in Places
       /\ written[i][served[i]] # Nothing
       /\ IsJSONValue(written[i][served[i]])) =>
      /\ call[i].out.state = "resolved"
      /\ DeepEqual(call[i].out.v, written[i][served[i]])

C5_Witness ==
  \E i \in StoreClients :
    /\ Settled(i, "jsonGet")
    /\ served[i] \in Places
    /\ written[i][served[i]] =
         Obj(<<<<"b", Quote>>, <<"a">>>>,
             <<Str(<<"a", Quote, Backslash>>), Arr(<<True>>)>>)
    /\ call[i].raw =
         Resolved(Str(stringify(written[i][served[i]])))
    /\ call[i].out = Resolved(written[i][served[i]])

(***************************************************************************)
(* C6.  From the end of construction on, this.cmds holds a text invoker    *)
(* and a binary invoker for each of the 20 names of the command table,     *)
(* each name registered exactly once, and no later step changes the        *)
(* mapping or registers anything.                                          *)
(***************************************************************************)
C6_FullyBound ==
  \A i \in Instances :
    Constructed(i) =>
      /\ Len(commands) = 20
      /\ \A x \in 1..Len(commands) :
           LET name == commands[x]
           IN /\ {name, name \o "Buffer"} \subseteq DOMAIN cmds[i]
              /\ cmds[i][name].command = name
              /\ cmds[i][name].mode = "string"
              /\ cmds[i][name \o "Buffer"].command = name
              /\ cmds[i][name \o "Buffer"].mode = "buffer"
              /\ Occurrences(registered[i], name) = 1

C6_BoundOnce ==
  /\ []C6_FullyBound
  /\ [][\A i \in Instances :
          Constructed(i) => (cmds'[i] = cmds[i] /\ registered'[i] = registered[i])]_vars

C6_Witness ==
  \E i \in Instances :
    /\ Constructed(i)
    /\ Settled(i, "jsonArrtrim")
    /\ "JSON.RESPBuffer" \in DOMAIN cmds[i]

(***************************************************************************)
(* C7.  When the invoker's future fails with E, the facade method's        *)
(* future fails with the same E, and no callback of the method has run.    *)
(***************************************************************************)
C7_ErrorPassesThrough ==
  \A i \in Instances :
    (call[i].pc = "settled" /\ call[i].raw.state = "rejected") =>
      /\ call[i].out = call[i].raw
      /\ ~call[i].ran

C7_Witness ==
  \E i \in Instances :
    /\ Settled(i, "jsonArrpop")
    /\ call[i].raw = Rejected(Err("ReplyError", <<"E">>))
    /\ call[i].out = call[i].raw

(***************************************************************************)
(* C8.  Each instance owns its mapping, bound to its own connection: the   *)
(* requests of an instance travel only through its own connection, and a   *)
(* facade call on one instance leaves the mapping, the connection and the  *)
(* store of every other instance unchanged.                                *)
(***************************************************************************)
C8_OwnConnection ==
  /\ \A i \in Instances :
       \A name \in DOMAIN cmds[i] : cmds[i][name].ctx = i
  /\ \A j \in Instances :
       \A x \in 1..Len(net[j]) : net[j][x].from = j

C8_Independent ==
  /\ []C8_OwnConnection
  /\ [][\A i \in Instances :
          (call[i].pc = "idle" /\ call'[i].pc = "awaiting") =>
            \A j \in Instances \ {i} :
              /\ cmds'[j] = cmds[j]
              /\ registered'[j] = registered[j]
              /\ net'[j] = net[j]
              /\ call'[j] = call[j]
              /\ store'[j] = store[j]]_vars

C8_Witness ==
  /\ Awaiting(1, "jsonSet")
  /\ Awaiting(2, "jsonGet")
  /\ Len(net[1]) = 1
  /\ Len(net[2]) = 1
  /\ net[1][1].from = 1
  /\ net[2][1].from = 2

(***************************************************************************)
(* C9.  The operand is encoded exactly when it is a document value: set,   *)
(* strAppend and arrIndexOf send the encoding of their operand third;      *)
(* numIncrBy, numMultBy and arrPop send their third argument, and arrTrim  *)
(* its third and fourth, as the caller passed them.                        *)
(***************************************************************************)
C9_SelectiveEncoding ==
  \A i \in Instances :
    call[i].pc = "awaiting" =>
      LET m == call[i].method
          given == call[i].args
      IN \A sent \in SentOf(i) :
           /\ m \in {"jsonSet", "jsonStrappend", "jsonArrindex"} =>
                Len(sent) = 3 /\ sent[3] = Str(stringify(given[3]))
           /\ m \in {"jsonNumincrby", "jsonNummultby", "jsonArrpop"} =>
                Len(sent) = 3 /\ sent[3] = given[3]
           /\ m = "jsonArrtrim" =>
                Len(sent) = 4 /\ sent[3] = given[3] /\ sent[4] = given[4]

C9_Witness ==
  \E i \in Instances :
    /\ Awaiting(i, "jsonStrappend")
    /\ call[i].args[3] = Str(<<"a", Quote>>)
    /\ \E sent \in SentOf(i) : sent[3] = Str(<<Quote, "a", Backslash, Quote, Quote>>)

(***************************************************************************)
(* C10.  Every facade call sends exactly one request, through the text     *)
(* invoker registered under the method's own wire command; it settles      *)
(* only once that request has been answered, and sends nothing more.       *)
(***************************************************************************)
C10_OneRequest ==
  \A i \in Instances :
    /\ call[i].pc = "awaiting" =>
         /\ Cardinality(FramesOf(i)) = 1
         /\ call[i].out.state = "pending"
         /\ \A jx \in FramesOf(i) :
              /\ net[jx[1]][jx[2]].command = WireCommand(call[i].method)
              /\ net[jx[1]][jx[2]].mode = "string"
    /\ call[i].pc # "awaiting" => FramesOf(i) = {}
    /\ call[i].out.state # "pending" => call[i].raw.state # "pending"

C10_OneRequestPerCall ==
  /\ []C10_OneRequest
  /\ [][\A i \in Instances :
          /\ FramesOf(i)' # FramesOf(i) =>
               \/ call[i].pc = "idle" /\ call'[i].pc = "awaiting"
               \/ call[i].pc = "awaiting" /\ call'[i].raw.state # "pending"
          /\ (call[i].out.state = "pending" /\ call'[i].out.state # "pending") =>
               call[i].pc \in {"awaiting", "replied"}]_vars

C10_Witness ==
  \E i \in Instances :
    /\ Settled(i, "jsonNumincrby")
    /\ call[i].raw = Resolved(Num(1))
    /\ call[i].out = Resolved(Num(1))
    /\ FramesOf(i) = {}

=============================================================================
